---- MODULE Spec2Model ----
(***************************************************************************)
(* node-leveldb, src/DB.cc: the DB binding object.  One caller (JS) thread *)
(* issues open/close/put/del/write/get; each dispatched call becomes an    *)
(* eio request whose execute step (EIO_Open, EIO_Close, EIO_Write,         *)
(* EIO_Read) runs on a thread of the eio pool and whose complete step      *)
(* (EIO_After...) runs back on the caller thread.  The engine handle       *)
(* DB::db is read and written by the pool threads without any lock, so the *)
(* execute steps are split at the points where another thread can run      *)
(* between a test of the handle and its use.                               *)
(***************************************************************************)
EXTENDS Integers, Sequences, FiniteSets

\* Number of eio requests that can be outstanding at once.
MaxInFlight == 2

\* A pointer to an engine instance is modelled by what it points to:
\* nothing (NULL), freed memory (DANGLING), or the live instance, which is
\* named by the path it holds.  The code only ever tests a pointer against
\* NULL, deletes it or calls through it.
NULL == "NULL"
DANGLING == "DANGLING"

\* A key or value argument is a JS string (its code points) or a node
\* Buffer (its bytes); NoArg is an argument the call does not have.
Text(cps) == [type |-> "text", data |-> cps]
Buffer(bytes) == [type |-> "buffer", data |-> bytes]
NoArg == [type |-> "none", data |-> << >>]

\* The bytes of one code point in UTF-8.
Utf8Bytes(cp) ==
  IF cp < 128
    THEN << cp >>
    ELSE IF cp < 2048
      THEN << 192 + (cp \div 64), 128 + (cp % 64) >>
      ELSE << 224 + (cp \div 4096), 128 + ((cp \div 64) % 64),
              128 + (cp % 64) >>

RECURSIVE Utf8Encode(_)
\* String::Utf8Value: a string transcoded to UTF-8.
Utf8Encode(cps) ==
  IF cps = << >>
    THEN << >>
    ELSE Utf8Bytes(Head(cps)) \o Utf8Encode(Tail(cps))

\* JsToSlice: the bytes the engine is given for an argument.  A string is
\* transcoded and copied, a Buffer's bytes are taken as they are.
JsToSlice(x) == IF x.type = "text" THEN Utf8Encode(x.data) ELSE x.data

IsContinuation(b) == b \in 128 .. 191

RECURSIVE Utf8Decode(_)
\* The string V8 makes of bytes taken as UTF-8: a well-formed sequence of
\* one, two or three bytes gives its code point, any other byte gives the
\* replacement character U+FFFD.
Utf8Decode(bytes) ==
  IF bytes = << >>
    THEN << >>
    ELSE LET b == Head(bytes)
             n == Len(bytes)
         IN IF b < 128
              THEN << b >> \o Utf8Decode(Tail(bytes))
              ELSE IF /\ b \in 194 .. 223
                      /\ n >= 2
                      /\ IsContinuation(bytes[2])
                THEN << (b - 192) * 64 + (bytes[2] - 128) >>
                       \o Utf8Decode(SubSeq(bytes, 3, n))
                ELSE IF /\ b \in 224 .. 239
                        /\ n >= 3
                        /\ IsContinuation(bytes[2])
                        /\ IsContinuation(bytes[3])
                        /\ (b - 224) * 4096 + (bytes[2] - 128) * 64 >= 2048
                  THEN << (b - 224) * 4096 + (bytes[2] - 128) * 64
                            + (bytes[3] - 128) >>
                         \o Utf8Decode(SubSeq(bytes, 4, n))
                  ELSE << 65533 >> \o Utf8Decode(Tail(bytes))

\* The arguments the calls are made with: the key "a", the value "1".
Keys == { Text(<< 97 >>) }
Vals == { Text(<< 49 >>) }

\* What the engine holds for a key: nothing, or a value's bytes.
Absent == [present |-> FALSE, bytes |-> << >>]
Stored(bytes) == [present |-> TRUE, bytes |-> bytes]

\* The entries of a WriteBatch, as WriteBatch::Put and WriteBatch::Delete
\* append them: the key's bytes and what the entry leaves for the key.
PutEntry(k, v) == [t |-> "put", k |-> JsToSlice(k), v |-> Stored(JsToSlice(v))]
DelEntry(k) == [t |-> "del", k |-> JsToSlice(k), v |-> Absent]

\* The WriteBatch objects the caller builds and hands to write().
Batches ==
  { << PutEntry(Text(<< 97 >>), Text(<< 49 >>)), DelEntry(Text(<< 97 >>)) >> }

VARIABLES
  db,      \* DB::db, the engine handle: NULL or a pointer to an instance
  lock,    \* per path, whether a live engine instance holds it
  disk,    \* per path, the persisted key -> value map of the engine
  ops,     \* the Params of the outstanding eio requests, oldest first
  refs,    \* ObjectWrap reference count taken by Params on the DB object
  evrefs,  \* ev_ref count taken by Params on the default loop
  ret,     \* the exception the binding call just made threw (NoThrow: it
           \* threw none, or the step just taken was not a binding call)
  last,    \* the request just completed and how its callback was invoked
           \* (NoLast: the step just taken was not a completion)
  proc     \* "running", or how the process ended: "fatal" (FatalException),
           \* "segfault" (a call through a bad pointer), "abort" (double free)

vars == << db, lock, disk, ops, refs, evrefs, ret, last, proc >>

\* The paths an engine instance can be opened at.
Paths == DOMAIN lock

Live == { p \in Paths : lock[p] }

\* disposeWriteBatch as the constructor of WriteParams leaves it: the
\* WriteBatch belongs to the caller.
DisposeDefault == FALSE

\* The fields of a Params (OpenParams, WriteParams, ReadParams) as its
\* constructor leaves them, with where its request stands.
BlankParams ==
  [ kind |-> "none", phase |-> "none", hasCb |-> FALSE, status |-> "OK",
    result |-> << >>, local |-> NULL, path |-> "", key |-> NoArg,
    val |-> NoArg, batch |-> << >>, dispose |-> DisposeDefault, note |-> "",
    execs |-> 0 ]

\* How a callback was invoked: argc arguments, the first one null or an
\* Error carrying msg, the second one the payload (a string: its code
\* points).
NoCall == [argc |-> 0, first |-> "", msg |-> "", payload |-> << >>]

NoLast ==
  [ kind |-> "none", hasCb |-> FALSE, status |-> "OK", note |-> "",
    result |-> << >>, key |-> NoArg, val |-> NoArg, execs |-> 0,
    calls |-> 0, args |-> NoCall, disposed |-> FALSE, steps |-> << >> ]

NoThrow == [op |-> "", err |-> ""]

Slots == 1 .. Len(ops)

\* new DB(): the handle is NULL, nothing is outstanding.  No engine
\* instance is live and the stores at the paths are empty.
InitWith(paths, keys) ==
  /\ db = NULL
  /\ lock = [p \in paths |-> FALSE]
  /\ disk = [p \in paths |-> [k \in { JsToSlice(x) : x \in keys } |-> Absent]]
  /\ ops = << >>
  /\ refs = 0
  /\ evrefs = 0
  /\ ret = NoThrow
  /\ last = NoLast
  /\ proc = "running"

InitAt(paths) == InitWith(paths, Keys)

Init == InitAt({"p1"})

(***************************************************************************)
(* Params: the bundle passed from the caller thread to the pool and back.  *)
(***************************************************************************)

\* Params::Params takes a reference on the DB object and on the event loop.
ParamsNew ==
  /\ refs' = refs + 1
  /\ evrefs' = evrefs + 1

\* The destructor without its ev_unref.
ParamsDelete_NoEvUnref ==
  /\ refs' = refs - 1
  /\ UNCHANGED evrefs

\* Params::~Params gives both back.
ParamsDelete ==
  /\ refs' = refs - 1
  /\ evrefs' = evrefs - 1

\* key and val keep the arguments the call was made with.
Request(kind, cb, path, key, val, batch, dispose) ==
  [ BlankParams EXCEPT !.kind = kind, !.phase = "queued", !.hasCb = cb,
                       !.path = path, !.key = key, !.val = val,
                       !.batch = batch, !.dispose = dispose ]

\* eio_custom: the request is handed to the pool.
eio_custom(req) ==
  /\ Len(ops) < MaxInFlight
  /\ ops' = Append(ops, req)

\* new XxxParams(...); EIO_BeforeXxx(params); return args.This();
Submit(req) ==
  /\ ParamsNew
  /\ eio_custom(req)
  /\ ret' = NoThrow
  /\ last' = NoLast
  /\ UNCHANGED << db, lock, disk, proc >>

\* A throw after the Params has been constructed and left behind.
Throw_ParamsLeaked(op, e) ==
  /\ ret' = [op |-> op, err |-> e]
  /\ last' = NoLast
  /\ ParamsNew
  /\ UNCHANGED << db, lock, disk, ops, proc >>

\* return ThrowException(...): nothing but the exception leaves the call.
Throw(op, e) ==
  /\ ret' = [op |-> op, err |-> e]
  /\ last' = NoLast
  /\ UNCHANGED << db, lock, disk, ops, refs, evrefs, proc >>

\* A step of a pool thread: no binding call returns, no callback runs.
Quiet ==
  /\ ret' = NoThrow
  /\ last' = NoLast

\* The test of the handle left out.
NotOpened_Never(h) == FALSE

\* if (self->db == NULL)
NotOpened(h) == h = NULL

(***************************************************************************)
(* The binding calls, on the caller thread.  A call's inputs are drawn     *)
(* where the code reads them.  argsOk: the required arguments are present  *)
(* and of the accepted types; cb: a callback was passed.                   *)
(***************************************************************************)

\* DB::Open, argsOk drawn from oks.
OpenArgs(oks) ==
  /\ proc = "running"
  /\ \E argsOk \in oks :
       IF ~argsOk
         THEN Throw("open", "TypeError")
         ELSE \E path \in Paths, cb \in BOOLEAN :
                Submit(Request("open", cb, path, NoArg, NoArg, << >>, FALSE))

Open == OpenArgs(BOOLEAN)

Close ==
  /\ proc = "running"
  /\ \E cb \in BOOLEAN :
       Submit(Request("close", cb, "", NoArg, NoArg, << >>, FALSE))

\* DB::Put taking args[0] for the value too.
PutOf_KeyAsValue(keys, vals) ==
  /\ proc = "running"
  /\ IF NotOpened(db)
       THEN Throw("put", "NotOpen")
       ELSE \E argsOk \in BOOLEAN :
              IF ~argsOk
                THEN Throw("put", "TypeError")
                ELSE \E k \in keys, v \in vals, cb \in BOOLEAN :
                       Submit(Request("put", cb, "", k, v,
                                      << PutEntry(k, k) >>, TRUE))

\* DB::Put, argsOk drawn from oks, its key from keys, its value from vals.
PutArgs(oks, keys, vals) ==
  /\ proc = "running"
  /\ IF NotOpened(db)
       THEN Throw("put", "NotOpen")
       ELSE \E argsOk \in oks :
              IF ~argsOk
                THEN Throw("put", "TypeError")
                ELSE \E k \in keys, v \in vals, cb \in BOOLEAN :
                       Submit(Request("put", cb, "", k, v,
                                      << PutEntry(k, v) >>, TRUE))

PutOf(keys, vals) == PutArgs(BOOLEAN, keys, vals)

Put == PutOf(Keys, Vals)

\* DB::Del, argsOk drawn from oks, its key from keys.
DelArgs(oks, keys) ==
  /\ proc = "running"
  /\ IF NotOpened(db)
       THEN Throw("del", "NotOpen")
       ELSE \E argsOk \in oks :
              IF ~argsOk
                THEN Throw("del", "TypeError")
                ELSE \E k \in keys, cb \in BOOLEAN :
                       Submit(Request("del", cb, "", k, NoArg,
                                      << DelEntry(k) >>, TRUE))

DelOf(keys) == DelArgs(BOOLEAN, keys)

Del == DelOf(Keys)

\* DB::Write, argsOk drawn from oks, its WriteBatch from batches.
WriteArgs(oks, batches) ==
  /\ proc = "running"
  /\ IF NotOpened(db)
       THEN Throw("write", "NotOpen")
       ELSE \E argsOk \in oks :
              IF ~argsOk
                THEN Throw("write", "TypeError")
                ELSE \E b \in batches, cb \in BOOLEAN :
                       Submit(Request("write", cb, "", NoArg, NoArg, b,
                                      DisposeDefault))

WriteOf(batches) == WriteArgs(BOOLEAN, batches)

Write == WriteOf(Batches)

\* DB::Get, argsOk drawn from oks, its key from keys.
GetArgs(oks, keys) ==
  /\ proc = "running"
  /\ \E argsOk \in oks :
       IF ~argsOk
         THEN Throw("get", "TypeError")
         ELSE IF NotOpened(db)
           THEN Throw("get", "NotOpen")
           ELSE \E k \in keys, cb \in BOOLEAN :
                  Submit(Request("get", cb, "", k, NoArg, << >>, FALSE))

GetOf(keys) == GetArgs(BOOLEAN, keys)

Get == GetOf(Keys)

\* DB::NewIterator, synchronous on the caller thread: the arguments are
\* checked, then self->db->NewIterator(options) is called with no test of
\* the handle.  Through a live instance it returns an iterator (err "": the
\* call returned without throwing).  Through NULL the virtual call reads
\* the vtable at address 0 and the process dies; through a dangling pointer
\* it dies or returns an iterator over freed memory.
NewIterator ==
  /\ proc = "running"
  /\ last' = NoLast
  /\ \E argsOk \in BOOLEAN :
       IF ~argsOk
         THEN /\ ret' = [op |-> "newIterator", err |-> "TypeError"]
              /\ UNCHANGED proc
         ELSE IF db \in Live
           THEN /\ ret' = [op |-> "newIterator", err |-> ""]
                /\ UNCHANGED proc
           ELSE \/ /\ proc' = "segfault"
                   /\ ret' = NoThrow
                \/ /\ db # NULL
                   /\ ret' = [op |-> "newIterator", err |-> ""]
                   /\ UNCHANGED proc
  /\ UNCHANGED << db, lock, disk, ops, refs, evrefs >>

(***************************************************************************)
(* The engine (leveldb), as DB.cc uses it.                                 *)
(***************************************************************************)

\* What pointer q points to once the instance p points to is freed.
Freed(p, q) == IF q = p THEN DANGLING ELSE q

\* delete self->db, s the request whose thread does it.  Deleting the live
\* instance releases it and its path, and leaves every copy of the pointer
\* dangling; deleting through a dangling pointer is a double free, which
\* aborts the process or goes unnoticed.
DeleteInstance(s, phase, note) ==
  IF db \in Live
    THEN /\ lock' = [lock EXCEPT ![db] = FALSE]
         /\ db' = DANGLING
         /\ ops' = [t \in Slots |->
                     IF t = s
                       THEN [ops[t] EXCEPT !.phase = phase, !.note = note]
                       ELSE [ops[t] EXCEPT !.local = Freed(db, @)]]
         /\ UNCHANGED proc
    ELSE /\ ops' = [ops EXCEPT ![s].phase = phase, ![s].note = note]
         /\ proc' \in {"running", "abort"}
         /\ UNCHANGED << db, lock >>

RECURSIVE ApplyBatch_Reversed(_, _)
\* The entries applied last to first.
ApplyBatch_Reversed(store, batch) ==
  IF batch = << >>
    THEN store
    ELSE ApplyBatch_Reversed(
           [store EXCEPT ![batch[Len(batch)].k] = batch[Len(batch)].v],
           SubSeq(batch, 1, Len(batch) - 1))

RECURSIVE ApplyBatch(_, _)
\* leveldb applies a WriteBatch entry by entry, in insertion order.
ApplyBatch(store, batch) ==
  IF batch = << >>
    THEN store
    ELSE ApplyBatch([store EXCEPT ![Head(batch).k] = Head(batch).v],
                    Tail(batch))

\* eio_return_stmt: the execute function returns.
Finished(o, status, note) ==
  [ o EXCEPT !.phase = "executed", !.status = status, !.note = note,
             !.local = NULL, !.execs = @ + 1 ]

(***************************************************************************)
(* EIO_Open, on a pool thread.                                             *)
(***************************************************************************)

\* EIO_Open without "Close old DB, if open() is called more than once".
EIO_Open_Delete_Skipped(s) ==
  /\ proc = "running"
  /\ s \in Slots
  /\ ops[s].kind = "open" /\ ops[s].phase = "queued"
  /\ ops' = [ops EXCEPT ![s].phase = "opening", ![s].note = "fresh"]
  /\ Quiet
  /\ UNCHANGED << db, lock, proc, disk, refs, evrefs >>

\* if (self->db != NULL) { delete self->db;
EIO_Open_Delete(s) ==
  /\ proc = "running"
  /\ s \in Slots
  /\ ops[s].kind = "open" /\ ops[s].phase = "queued"
  /\ IF db # NULL
       THEN DeleteInstance(s, "nulling", "replaced")
       ELSE /\ ops' = [ops EXCEPT ![s].phase = "opening", ![s].note = "fresh"]
            /\ UNCHANGED << db, lock, proc >>
  /\ Quiet
  /\ UNCHANGED << disk, refs, evrefs >>

\* self->db = NULL; }
EIO_Open_Null(s) ==
  /\ proc = "running"
  /\ s \in Slots
  /\ ops[s].kind = "open" /\ ops[s].phase = "nulling"
  /\ db' = NULL
  /\ ops' = [ops EXCEPT ![s].phase = "opening"]
  /\ Quiet
  /\ UNCHANGED << lock, disk, refs, evrefs, proc >>

\* params->status = leveldb::DB::Open(options, name, &self->db): on success
\* the new instance is stored in db, on failure NULL is.  A path held by a
\* live instance cannot be opened again.
EIO_Open_Engine(s) ==
  /\ proc = "running"
  /\ s \in Slots
  /\ ops[s].kind = "open" /\ ops[s].phase = "opening"
  /\ \E engineOk \in BOOLEAN :
       IF engineOk /\ ~lock[ops[s].path]
         THEN /\ db' = ops[s].path
              /\ lock' = [lock EXCEPT ![ops[s].path] = TRUE]
              /\ ops' = [ops EXCEPT ![s] = Finished(@, "OK", @.note)]
         ELSE /\ db' = NULL
              /\ ops' = [ops EXCEPT ![s] = Finished(@, "IOError", @.note)]
              /\ UNCHANGED lock
  /\ Quiet
  /\ UNCHANGED << disk, refs, evrefs, proc >>

(***************************************************************************)
(* EIO_Close, on a pool thread.                                            *)
(***************************************************************************)

\* if (self->db != NULL) { delete self->db;
EIO_Close_Delete(s) ==
  /\ proc = "running"
  /\ s \in Slots
  /\ ops[s].kind = "close" /\ ops[s].phase = "queued"
  /\ IF db # NULL
       THEN DeleteInstance(s, "nulling", "closed")
       ELSE /\ ops' = [ops EXCEPT ![s] = Finished(@, @.status, "noop")]
            /\ UNCHANGED << db, lock, proc >>
  /\ Quiet
  /\ UNCHANGED << disk, refs, evrefs >>

\* EIO_Close without its "self->db = NULL".
EIO_Close_Null_Forgotten(s) ==
  /\ proc = "running"
  /\ s \in Slots
  /\ ops[s].kind = "close" /\ ops[s].phase = "nulling"
  /\ ops' = [ops EXCEPT ![s] = Finished(@, @.status, @.note)]
  /\ Quiet
  /\ UNCHANGED << db, lock, disk, refs, evrefs, proc >>

\* self->db = NULL; }
EIO_Close_Null(s) ==
  /\ proc = "running"
  /\ s \in Slots
  /\ ops[s].kind = "close" /\ ops[s].phase = "nulling"
  /\ db' = NULL
  /\ ops' = [ops EXCEPT ![s] = Finished(@, @.status, @.note)]
  /\ Quiet
  /\ UNCHANGED << lock, disk, refs, evrefs, proc >>

(***************************************************************************)
(* EIO_Write and EIO_Read, on a pool thread.  The handle is tested and     *)
(* then used; the pointer used is the one tested or, reloaded, the one     *)
(* the handle holds by then.                                               *)
(***************************************************************************)

\* EIO_Write without its test of the handle.
EIO_Write_Test_Missing(s) ==
  /\ proc = "running"
  /\ s \in Slots
  /\ ops[s].kind \in {"put", "del", "write"} /\ ops[s].phase = "queued"
  /\ ops' = [ops EXCEPT ![s].phase = "calling", ![s].local = db]
  /\ Quiet
  /\ UNCHANGED << db, lock, disk, refs, evrefs, proc >>

\* if (self->db != NULL)
EIO_Write_Test(s) ==
  /\ proc = "running"
  /\ s \in Slots
  /\ ops[s].kind \in {"put", "del", "write"} /\ ops[s].phase = "queued"
  /\ IF db # NULL
       THEN ops' = [ops EXCEPT ![s].phase = "calling", ![s].local = db]
       ELSE ops' = [ops EXCEPT ![s] = Finished(@, @.status, "skipped")]
  /\ Quiet
  /\ UNCHANGED << db, lock, disk, refs, evrefs, proc >>

\* A call through a pointer that is NULL or dangling: the process dies, or
\* the call returns some status having touched no live store.
WildCall(s, p) ==
  /\ \/ /\ proc' = "segfault"
        /\ UNCHANGED ops
     \/ /\ p # NULL
        /\ \E st \in {"OK", "IOError"} :
             ops' = [ops EXCEPT ![s] = Finished(@, st, "wild")]
        /\ UNCHANGED proc
  /\ UNCHANGED disk

\* params->status = self->db->Write(params->options, &params->writeBatch->wb);
EIO_Write_Call(s) ==
  /\ proc = "running"
  /\ s \in Slots
  /\ ops[s].kind \in {"put", "del", "write"} /\ ops[s].phase = "calling"
  /\ \E p \in {ops[s].local, db} :
       IF p \notin Live
         THEN WildCall(s, p)
         ELSE /\ \E engineOk \in BOOLEAN :
                   IF engineOk
                     THEN /\ disk' = [disk EXCEPT ![p] =
                                        ApplyBatch(@, ops[s].batch)]
                          /\ ops' = [ops EXCEPT ![s] =
                                       Finished(@, "OK", "applied")]
                     ELSE /\ ops' = [ops EXCEPT ![s] =
                                       Finished(@, "IOError", "failed")]
                          /\ UNCHANGED disk
              /\ UNCHANGED proc
  /\ Quiet
  /\ UNCHANGED << db, lock, refs, evrefs >>

\* if (self->db != NULL)
EIO_Read_Test(s) ==
  /\ proc = "running"
  /\ s \in Slots
  /\ ops[s].kind = "get" /\ ops[s].phase = "queued"
  /\ IF db # NULL
       THEN ops' = [ops EXCEPT ![s].phase = "calling", ![s].local = db]
       ELSE ops' = [ops EXCEPT ![s] = Finished(@, @.status, "skipped")]
  /\ Quiet
  /\ UNCHANGED << db, lock, disk, refs, evrefs, proc >>

\* params->status = self->db->Get(params->options, params->key, &params->result);
EIO_Read_Call(s) ==
  /\ proc = "running"
  /\ s \in Slots
  /\ ops[s].kind = "get" /\ ops[s].phase = "calling"
  /\ \E p \in {ops[s].local, db} :
       IF p \notin Live
         THEN WildCall(s, p)
         ELSE /\ \E engineOk \in BOOLEAN :
                   LET v == disk[p][JsToSlice(ops[s].key)] IN
                   IF ~engineOk
                     THEN ops' = [ops EXCEPT ![s] =
                                    Finished(@, "IOError", "failed")]
                     ELSE IF ~v.present
                       THEN ops' = [ops EXCEPT ![s] =
                                      Finished(@, "NotFound", "missing")]
                       ELSE ops' = [ops EXCEPT ![s] =
                                      Finished([@ EXCEPT !.result = v.bytes],
                                               "OK", "found")]
              /\ UNCHANGED << disk, proc >>
  /\ Quiet
  /\ UNCHANGED << db, lock, refs, evrefs >>

(***************************************************************************)
(* Params::Callback and the EIO_After... steps, on the caller thread.      *)
(***************************************************************************)

\* Handle<Value>(): the default argument of Callback, an empty handle.
EmptyHandle == [empty |-> TRUE, str |-> << >>]

\* String::New(data, length): the bytes taken as UTF-8; always a value,
\* also for the empty string.
StringNew(x) == [empty |-> FALSE, str |-> Utf8Decode(x)]

\* leveldb::Status::ToString
StatusToString(status) ==
  CASE status = "OK" -> "OK"
    [] status = "NotFound" -> "NotFound: "
    [] OTHER -> "IO error: "

\* Callback without its "else" for a result: success never passes one.
CallbackArgs_ResultDropped(status, result) ==
  IF status = "OK"
    THEN [NoCall EXCEPT !.argc = 0]
    ELSE IF status = "NotFound"
      THEN [NoCall EXCEPT !.argc = 1, !.first = "null"]
      ELSE [NoCall EXCEPT !.argc = 1, !.first = "Error",
                          !.msg = StatusToString(status)]

\* Callback without its IsNotFound branch: not found is one more error.
CallbackArgs_NotFoundIsError(status, result) ==
  IF status = "OK"
    THEN IF result.empty
           THEN [NoCall EXCEPT !.argc = 0]
           ELSE [NoCall EXCEPT !.argc = 2, !.first = "null",
                               !.payload = result.str]
    ELSE [NoCall EXCEPT !.argc = 1, !.first = "Error",
                        !.msg = StatusToString(status)]

\* The arguments Params::Callback passes to a callback that is not empty.
CallbackArgs(status, result) ==
  IF status = "OK"
    THEN IF result.empty
           THEN [NoCall EXCEPT !.argc = 0]
           ELSE [NoCall EXCEPT !.argc = 2, !.first = "null",
                               !.payload = result.str]
    ELSE IF status = "NotFound"
      THEN [NoCall EXCEPT !.argc = 1, !.first = "null"]
      ELSE [NoCall EXCEPT !.argc = 1, !.first = "Error",
                          !.msg = StatusToString(status)]

\* if (!callback.IsEmpty()) { ... callback->Call(...) ... }
Callback(o, result) ==
  [ kind |-> o.kind, hasCb |-> o.hasCb, status |-> o.status,
    note |-> o.note, result |-> o.result, key |-> o.key, val |-> o.val,
    execs |-> o.execs,
    calls |-> IF o.hasCb THEN 1 ELSE 0,
    args |-> IF o.hasCb THEN CallbackArgs(o.status, result) ELSE NoCall,
    disposed |-> FALSE,
    steps |-> IF o.hasCb THEN << "callback" >> ELSE << >> ]

\* A finish function called whether or not execute has returned.
Executed_OrNot(o) == TRUE

\* eio calls the finish function of a request once its execute function
\* has returned.
Executed(o) == o.phase = "executed"

Remove(q, i) == SubSeq(q, 1, i - 1) \o SubSeq(q, i + 1, Len(q))

\* What a complete step does after Callback, in order.
Cleanup(disposeWriteBatch) ==
  (IF disposeWriteBatch THEN << "delete writeBatch" >> ELSE << >>)
    \o << "delete params" >>

\* params->Callback(result); if (params->disposeWriteBatch) delete
\* params->writeBatch; delete params; return 0;  When the callback throws
\* and nothing handles the exception, FatalException ends the process
\* inside Callback.
After(s, result, disposeWriteBatch) ==
  /\ proc = "running"
  /\ Executed(ops[s])
  /\ \/ /\ last' = [Callback(ops[s], result) EXCEPT
                      !.disposed = disposeWriteBatch,
                      !.steps = @ \o Cleanup(disposeWriteBatch)]
        /\ ParamsDelete
        /\ ops' = Remove(ops, s)
        /\ UNCHANGED proc
     \/ /\ ops[s].hasCb
        /\ last' = Callback(ops[s], result)
        /\ proc' = "fatal"
        /\ UNCHANGED << ops, refs, evrefs >>
  /\ ret' = NoThrow
  /\ UNCHANGED << db, lock, disk >>

EIO_AfterOpen(s) ==
  /\ s \in Slots
  /\ ops[s].kind = "open"
  /\ After(s, EmptyHandle, FALSE)

EIO_AfterClose(s) ==
  /\ s \in Slots
  /\ ops[s].kind = "close"
  /\ After(s, EmptyHandle, FALSE)

\* EIO_AfterWrite deleting the WriteBatch whoever owns it.
EIO_AfterWrite_DisposeAlways(s) ==
  /\ s \in Slots
  /\ ops[s].kind \in {"put", "del", "write"}
  /\ After(s, EmptyHandle, TRUE)

EIO_AfterWrite(s) ==
  /\ s \in Slots
  /\ ops[s].kind \in {"put", "del", "write"}
  /\ After(s, EmptyHandle, ops[s].dispose)

EIO_AfterRead(s) ==
  /\ s \in Slots
  /\ ops[s].kind = "get"
  /\ After(s, StringNew(ops[s].result), FALSE)

(***************************************************************************)
(* The program.                                                            *)
(***************************************************************************)

Pool == 1 .. MaxInFlight

Next ==
  \/ Open
  \/ Close
  \/ Put
  \/ Del
  \/ Write
  \/ Get
  \/ NewIterator
  \/ \E s \in Pool : EIO_Open_Delete(s)
  \/ \E s \in Pool : EIO_Open_Null(s)
  \/ \E s \in Pool : EIO_Open_Engine(s)
  \/ \E s \in Pool : EIO_Close_Delete(s)
  \/ \E s \in Pool : EIO_Close_Null(s)
  \/ \E s \in Pool : EIO_Write_Test(s)
  \/ \E s \in Pool : EIO_Write_Call(s)
  \/ \E s \in Pool : EIO_Read_Test(s)
  \/ \E s \in Pool : EIO_Read_Call(s)
  \/ \E s \in Pool : EIO_AfterOpen(s)
  \/ \E s \in Pool : EIO_AfterClose(s)
  \/ \E s \in Pool : EIO_AfterWrite(s)
  \/ \E s \in Pool : EIO_AfterRead(s)

Spec == Init /\ [][Next]_vars

\* The behaviours in which no call throws.  A call that throws changes
\* nothing of the program's state, so these behaviours pass through the
\* same states of the program as all behaviours do.
OpenDispatched == Open /\ ret' = NoThrow
PutDispatched == Put /\ ret' = NoThrow
DelDispatched == Del /\ ret' = NoThrow
WriteDispatched == Write /\ ret' = NoThrow
GetDispatched == Get /\ ret' = NoThrow

NextDispatched ==
  \/ OpenDispatched
  \/ Close
  \/ PutDispatched
  \/ DelDispatched
  \/ WriteDispatched
  \/ GetDispatched
  \/ \E s \in Pool : EIO_Open_Delete(s)
  \/ \E s \in Pool : EIO_Open_Null(s)
  \/ \E s \in Pool : EIO_Open_Engine(s)
  \/ \E s \in Pool : EIO_Close_Delete(s)
  \/ \E s \in Pool : EIO_Close_Null(s)
  \/ \E s \in Pool : EIO_Write_Test(s)
  \/ \E s \in Pool : EIO_Write_Call(s)
  \/ \E s \in Pool : EIO_Read_Test(s)
  \/ \E s \in Pool : EIO_Read_Call(s)
  \/ \E s \in Pool : EIO_AfterOpen(s)
  \/ \E s \in Pool : EIO_AfterClose(s)
  \/ \E s \in Pool : EIO_AfterWrite(s)
  \/ \E s \in Pool : EIO_AfterRead(s)

SpecDispatched == Init /\ [][NextDispatched]_vars

\* open and close alone, with two paths to open.
NextOpenClose ==
  \/ OpenDispatched
  \/ Close
  \/ \E s \in Pool : EIO_Open_Delete(s)
  \/ \E s \in Pool : EIO_Open_Null(s)
  \/ \E s \in Pool : EIO_Open_Engine(s)
  \/ \E s \in Pool : EIO_Close_Delete(s)
  \/ \E s \in Pool : EIO_Close_Null(s)
  \/ \E s \in Pool : EIO_AfterOpen(s)
  \/ \E s \in Pool : EIO_AfterClose(s)

InitTwoPaths == InitAt({"p1", "p2"})

SpecOpenClose == InitTwoPaths /\ [][NextOpenClose]_vars

\* One call at a time, each made when nothing is outstanding, with keys and
\* values that are strings (of one, two and three bytes a character) and
\* Buffers (of bytes that are UTF-8 and of bytes that are not).
RoundTripKeys == { Text(<< 97 >>), Buffer(<< 255 >>) }
RoundTripVals ==
  { Text(<< 49 >>), Text(<< 233 >>), Text(<< 8364 >>), Text(<< >>),
    Buffer(<< 49 >>), Buffer(<< 195, 169 >>), Buffer(<< 255 >>) }

OpenAlone == ops = << >> /\ OpenDispatched
CloseAlone == ops = << >> /\ Close
PutAlone == ops = << >> /\ PutOf(RoundTripKeys, RoundTripVals) /\ ret' = NoThrow
GetAlone == ops = << >> /\ GetOf(RoundTripKeys) /\ ret' = NoThrow

NextRoundTrip ==
  \/ OpenAlone
  \/ CloseAlone
  \/ PutAlone
  \/ GetAlone
  \/ \E s \in Pool : EIO_Open_Delete(s)
  \/ \E s \in Pool : EIO_Open_Null(s)
  \/ \E s \in Pool : EIO_Open_Engine(s)
  \/ \E s \in Pool : EIO_Close_Delete(s)
  \/ \E s \in Pool : EIO_Close_Null(s)
  \/ \E s \in Pool : EIO_Write_Test(s)
  \/ \E s \in Pool : EIO_Write_Call(s)
  \/ \E s \in Pool : EIO_Read_Test(s)
  \/ \E s \in Pool : EIO_Read_Call(s)
  \/ \E s \in Pool : EIO_AfterOpen(s)
  \/ \E s \in Pool : EIO_AfterClose(s)
  \/ \E s \in Pool : EIO_AfterWrite(s)
  \/ \E s \in Pool : EIO_AfterRead(s)

InitRoundTrip == InitWith({"p1"}, RoundTripKeys)

SpecRoundTrip == InitRoundTrip /\ [][NextRoundTrip]_vars

\* No open and no close is outstanding: the handle is not being changed.
Steady == \A s \in Slots : ops[s].kind \notin {"open", "close"}

\* The WriteBatch [Put(a, 1), Delete(a), Put(a, 2)].
OrderedBatch ==
  << PutEntry(Text(<< 97 >>), Text(<< 49 >>)),
     DelEntry(Text(<< 97 >>)),
     PutEntry(Text(<< 97 >>), Text(<< 50 >>)) >>

\* put(a, 0), write(OrderedBatch) and get(a), in flight together and with
\* open and close.
BatchPut == PutOf(Keys, { Text(<< 48 >>) }) /\ ret' = NoThrow
BatchWrite == WriteOf({ OrderedBatch }) /\ ret' = NoThrow

NextBatch ==
  \/ OpenDispatched
  \/ Close
  \/ BatchPut
  \/ BatchWrite
  \/ GetDispatched
  \/ \E s \in Pool : EIO_Open_Delete(s)
  \/ \E s \in Pool : EIO_Open_Null(s)
  \/ \E s \in Pool : EIO_Open_Engine(s)
  \/ \E s \in Pool : EIO_Close_Delete(s)
  \/ \E s \in Pool : EIO_Close_Null(s)
  \/ \E s \in Pool : EIO_Write_Test(s)
  \/ \E s \in Pool : EIO_Write_Call(s)
  \/ \E s \in Pool : EIO_Read_Test(s)
  \/ \E s \in Pool : EIO_Read_Call(s)
  \/ \E s \in Pool : EIO_AfterOpen(s)
  \/ \E s \in Pool : EIO_AfterClose(s)
  \/ \E s \in Pool : EIO_AfterWrite(s)
  \/ \E s \in Pool : EIO_AfterRead(s)

SpecBatch == Init /\ [][NextBatch]_vars

\* Puts of the keys a and b, in flight together, each key put only while no
\* request for it is outstanding and the store does not hold it yet; gets
\* of these keys; open and close only while nothing is outstanding.
TwoKeys == { Text(<< 97 >>), Text(<< 98 >>) }
TwoVals == { Text(<< 49 >>), Text(<< 50 >>) }

Untouched(k) ==
  /\ \A s \in Slots : ops[s].key # k
  /\ \A p \in Live : ~disk[p][JsToSlice(k)].present

DistinctPut ==
  /\ Steady
  /\ \E k \in { x \in TwoKeys : Untouched(x) } : PutOf({ k }, TwoVals)
  /\ ret' = NoThrow

SteadyGet == Steady /\ GetOf(TwoKeys) /\ ret' = NoThrow

NextPuts ==
  \/ OpenAlone
  \/ CloseAlone
  \/ DistinctPut
  \/ SteadyGet
  \/ \E s \in Pool : EIO_Open_Delete(s)
  \/ \E s \in Pool : EIO_Open_Null(s)
  \/ \E s \in Pool : EIO_Open_Engine(s)
  \/ \E s \in Pool : EIO_Close_Delete(s)
  \/ \E s \in Pool : EIO_Close_Null(s)
  \/ \E s \in Pool : EIO_Write_Test(s)
  \/ \E s \in Pool : EIO_Write_Call(s)
  \/ \E s \in Pool : EIO_Read_Test(s)
  \/ \E s \in Pool : EIO_Read_Call(s)
  \/ \E s \in Pool : EIO_AfterOpen(s)
  \/ \E s \in Pool : EIO_AfterClose(s)
  \/ \E s \in Pool : EIO_AfterWrite(s)
  \/ \E s \in Pool : EIO_AfterRead(s)

InitPuts == InitWith({"p1"}, TwoKeys)

SpecPuts == InitPuts /\ [][NextPuts]_vars

\* close() called on an open handle that no open or close is at, and no
\* open() called while anything is outstanding: an outstanding close has no
\* open after it.
CloseOpen == db \in Live /\ Steady /\ Close

NextAfterClose ==
  \/ OpenAlone
  \/ CloseOpen
  \/ PutDispatched
  \/ DelDispatched
  \/ WriteDispatched
  \/ GetDispatched
  \/ \E s \in Pool : EIO_Open_Delete(s)
  \/ \E s \in Pool : EIO_Open_Null(s)
  \/ \E s \in Pool : EIO_Open_Engine(s)
  \/ \E s \in Pool : EIO_Close_Delete(s)
  \/ \E s \in Pool : EIO_Close_Null(s)
  \/ \E s \in Pool : EIO_Write_Test(s)
  \/ \E s \in Pool : EIO_Write_Call(s)
  \/ \E s \in Pool : EIO_Read_Test(s)
  \/ \E s \in Pool : EIO_Read_Call(s)
  \/ \E s \in Pool : EIO_AfterOpen(s)
  \/ \E s \in Pool : EIO_AfterClose(s)
  \/ \E s \in Pool : EIO_AfterWrite(s)
  \/ \E s \in Pool : EIO_AfterRead(s)

SpecAfterClose == Init /\ [][NextAfterClose]_vars

(***************************************************************************)
(* Properties.                                                             *)
(***************************************************************************)

\* The state a call that was not dispatched must leave alone.
Program == << db, lock, disk, ops, refs, evrefs, proc >>

\* C1, as stated: every put, del, write and get made while the handle is
\* NULL throws the "not open" error and dispatches nothing: no request is
\* handed to the pool, no reference is taken, the handle is unchanged.
C1_ClosedCallThrowsNotOpen ==
  [][ (db = NULL /\ (Put \/ Del \/ Write \/ Get))
        => (ret'.err = "NotOpen" /\ UNCHANGED Program) ]_vars

\* C1, amended: every put, del, write and get made while the handle is NULL
\* throws and dispatches nothing; the error is the "not open" error, except
\* for a get whose key is missing or of the wrong type, which throws the
\* argument TypeError.
C1_ClosedCallThrows ==
  [][ (db = NULL /\ (Put \/ Del \/ Write \/ Get))
        => /\ ret'.err \in {"NotOpen", "TypeError"}
           /\ ret'.err = "TypeError" => ret'.op = "get"
           /\ ret'.op \in {"put", "del", "write", "get"}
           /\ UNCHANGED Program ]_vars

\* A read or write call has just thrown "not open" on a closed handle.
C1_Witness ==
  /\ db = NULL
  /\ ret.err = "NotOpen"
  /\ ret.op \in {"put", "del", "write", "get"}

\* The requests whose execute step is under way: it has tested or freed the
\* handle and has not returned yet.
Executing == { s \in Slots : ops[s].phase \in {"nulling", "opening", "calling"} }

\* C2: no pool thread ever calls the engine's Write or Get through a handle
\* that is NULL or points to a destroyed instance, and at most one execute
\* step (of an open, a close, a write or a read) is at the handle at a time.
C2_HandleUsedSafely ==
  /\ proc # "segfault"
  /\ \A s \in Slots : ops[s].note # "wild"
  /\ last.note # "wild"
  /\ Cardinality(Executing) <= 1

\* C3: a dispatched request that was given a callback has it called exactly
\* once: never twice, and never not at all, which is what happens when the
\* process dies on a bad pointer with the request still outstanding.
C3_CallbackExactlyOnce ==
  /\ last.calls <= 1
  /\ (last.kind # "none" /\ last.hasCb) => last.calls = 1
  /\ proc \in {"segfault", "abort"} => \A s \in Slots : ~ops[s].hasCb

\* C4: a request's execute step runs once and has returned before its
\* complete step runs: an outstanding request has been executed at most
\* once, exactly once if and only if it awaits completion, and a request
\* that has just been completed had been executed exactly once.
C4_ExecuteOnceBeforeComplete ==
  /\ \A s \in Slots :
       /\ ops[s].execs <= 1
       /\ ops[s].execs = 1 <=> ops[s].phase = "executed"
  /\ last.kind # "none" => last.execs = 1

\* A request has just been completed, after its one execution.
C4_Witness == last.kind \in {"open", "close", "put", "del", "write", "get"}
              /\ last.execs = 1

\* C5: at most one engine instance is live, and a live instance is the one
\* the handle points to: none is leaked.
C5_OneLiveInstance ==
  /\ Cardinality(Live) <= 1
  /\ Live \subseteq {db}

\* C6: the references held on the DB object and on the event loop both
\* equal the number of outstanding requests (so they are never negative and
\* are zero when nothing is outstanding).
C6_RefsMatchInFlight ==
  /\ refs = Len(ops)
  /\ evrefs = Len(ops)
  /\ refs >= 0 /\ evrefs >= 0
  /\ (ops = << >>) => (refs = 0 /\ evrefs = 0)

\* A request has just been completed and released its references while
\* another one is still outstanding and holds its own.
C6_Witness ==
  /\ last.kind # "none"
  /\ proc = "running"
  /\ Len(ops) = 1
  /\ refs = 1 /\ evrefs = 1

\* C7: EIO_Open on an open handle first destroys the instance the handle
\* points to; the engine open that follows leaves the handle pointing to a
\* live instance when it succeeds and NULL when it fails; and the callback
\* of an open that failed is called with the error made of its status.
C7_OpenReplacesOrFails ==
  [][ /\ \A s \in Pool :
           (EIO_Open_Delete(s) /\ db \in Live) => ~lock'[db]
      /\ \A s \in Pool :
           EIO_Open_Engine(s) =>
             IF ops'[s].status = "OK"
               THEN db' \in { q \in DOMAIN lock' : lock'[q] }
               ELSE db' = NULL
      /\ (last'.kind = "open" /\ last'.hasCb /\ last'.status # "OK") =>
           last'.args = [argc |-> 1, first |-> "Error",
                         msg |-> "IO error: ", payload |-> << >>] ]_vars

\* An open that found the handle open and destroyed that instance has
\* failed in the engine: the handle is NULL and its callback got the error.
C7_Witness ==
  /\ last.kind = "open" /\ last.note = "replaced"
  /\ last.status = "IOError" /\ last.hasCb
  /\ last.args.first = "Error"
  /\ db = NULL

\* C8: EIO_Close on an open handle destroys the instance and leaves the
\* handle NULL; on a NULL handle it changes nothing of the handle, the
\* instances and the stores; and the callback of a close is always called
\* with no arguments.
C8_CloseIdempotent ==
  [][ /\ \A s \in Pool :
           (EIO_Close_Delete(s) /\ db \in Live) => ~lock'[db]
      /\ \A s \in Pool : EIO_Close_Null(s) => db' = NULL
      /\ \A s \in Pool :
           (EIO_Close_Delete(s) /\ db = NULL) =>
             (UNCHANGED << db, lock, disk >> /\ ops'[s].phase = "executed")
      /\ (last'.kind = "close" /\ last'.hasCb) =>
           (last'.calls = 1 /\ last'.args = NoCall) ]_vars

\* A close that found the handle already NULL has just completed with the
\* success shape.
C8_Witness ==
  /\ last.kind = "close" /\ last.note = "noop"
  /\ last.hasCb /\ last.args.argc = 0
  /\ db = NULL

\* C9: the callback's arguments follow from the outcome: success without
\* payload, no arguments; success with payload (a get), (null, payload);
\* not found, (null); any other failure, (Error(status message)).
C9_CallbackShape ==
  (last.kind # "none" /\ last.hasCb) =>
    /\ (last.status = "OK" /\ last.kind # "get") =>
         last.args = [argc |-> 0, first |-> "", msg |-> "", payload |-> << >>]
    /\ (last.status = "OK" /\ last.kind = "get") =>
         last.args = [argc |-> 2, first |-> "null", msg |-> "",
                      payload |-> Utf8Decode(last.result)]
    /\ last.status = "NotFound" =>
         last.args = [argc |-> 1, first |-> "null", msg |-> "",
                      payload |-> << >>]
    /\ last.status = "IOError" =>
         last.args = [argc |-> 1, first |-> "Error", msg |-> "IO error: ",
                      payload |-> << >>]

\* A write that failed in the engine has just had its callback called with
\* the error.
C9_Witness ==
  /\ last.kind \in {"put", "del", "write"}
  /\ last.hasCb /\ last.status = "IOError" /\ last.note = "failed"
  /\ last.args.first = "Error"

\* C10: a get whose lookup found the key missing from the open store has
\* its callback called with (null) alone: no error and no payload.
C10_MissingKeyNotFoundShape ==
  (last.kind = "get" /\ last.note = "missing" /\ last.hasCb) =>
    /\ last.calls = 1
    /\ last.args = [argc |-> 1, first |-> "null", msg |-> "",
                    payload |-> << >>]

\* A get of a missing key has just completed.
C10_Witness ==
  /\ last.kind = "get" /\ last.note = "missing" /\ last.hasCb
  /\ last.args.argc = 1

\* C11: newIterator called while the handle is NULL throws on the caller
\* thread (the "not open" error, or the argument error for bad arguments),
\* the process goes on and nothing of the program's state is touched.
C11_NewIteratorClosedThrows ==
  [][ (db = NULL /\ NewIterator)
        => /\ proc' = "running"
           /\ ret'.op = "newIterator"
           /\ ret'.err \in {"NotOpen", "TypeError"}
           /\ UNCHANGED Program ]_vars

\* C12: with one operation at a time on an open handle, a put(k, v) that
\* completed with success has left v's bytes in the store under k, and a
\* get(k) that found a value delivers (null, payload) with a payload whose
\* bytes are the bytes the store holds under k: a get after the put
\* delivers v, byte for byte.
C12_RoundTrip ==
  /\ (last.kind = "put" /\ last.note = "applied" /\ db \in Live) =>
       disk[db][JsToSlice(last.key)] = Stored(JsToSlice(last.val))
  /\ (last.kind = "get" /\ last.note = "found" /\ last.hasCb /\ db \in Live) =>
       /\ last.args.argc = 2 /\ last.args.first = "null"
       /\ JsToSlice(Text(last.args.payload))
            = disk[db][JsToSlice(last.key)].bytes

\* C13: the entries of [Put(a, 1), Delete(a), Put(a, 2)] are applied in
\* order and as a unit.  The Write call of the batch leaves 2 under a; a get
\* delivers what the store holds under a when it is executed; and the store
\* is never in a state where only the first entry (a is 1) or only the
\* first two (a is gone again, after the put of 0 or an earlier batch) have
\* been applied, so no get, concurrent or later, sees such a state.
C13_BatchInOrderAtomic ==
  [][ /\ \A s \in Pool :
           ( /\ EIO_Write_Call(s)
             /\ ops[s].kind = "write"
             /\ ops'[s].note = "applied" ) =>
             \E p \in Live : disk'[p][<< 97 >>] = Stored(<< 50 >>)
      /\ \A s \in Pool :
           (EIO_Read_Call(s) /\ ops'[s].note = "found") =>
             /\ \E p \in Live : ops'[s].result = disk[p][<< 97 >>].bytes
             /\ ops'[s].result # << 49 >>
      /\ \A p \in Paths :
           /\ disk'[p][<< 97 >>] # Stored(<< 49 >>)
           /\ disk[p][<< 97 >>].present => disk'[p][<< 97 >>].present ]_vars

\* A get has delivered 2 for a, which only the batch puts there.
C13_Witness ==
  /\ last.kind = "get" /\ last.hasCb /\ last.note = "found"
  /\ last.result = << 50 >>
  /\ last.args.payload = << 50 >>

\* C14: puts of distinct keys in flight together on an open handle, no open
\* or close outstanding, in every order of the pool's steps.  When the
\* callback of a put has fired with success the store holds the value put
\* under its key; a value the store holds stays as it is while the other
\* puts execute and complete; and a get that finds a key delivers what the
\* store holds under it.  So once all the callbacks have fired, every key
\* is retrieved with the value that was put.
C14_ConcurrentPutsAllStored ==
  [][ /\ (last'.kind = "put" /\ last'.status = "OK") =>
           /\ db' \in Live
           /\ disk'[db'][JsToSlice(last'.key)] = Stored(JsToSlice(last'.val))
      /\ \A p \in Paths : \A kb \in DOMAIN disk[p] :
           disk[p][kb].present => disk'[p][kb] = disk[p][kb]
      /\ \A s \in Pool :
           (EIO_Read_Call(s) /\ ops'[s].note = "found") =>
             ops'[s].result = disk[db][JsToSlice(ops[s].key)].bytes ]_vars

\* The callback of one put has just fired with success while a put of the
\* other key, in flight together with it, has executed and awaits its own;
\* the store holds both values.
C14_Witness ==
  /\ last.kind = "put" /\ last.status = "OK" /\ last.hasCb
  /\ Len(ops) = 1
  /\ ops[1].kind = "put" /\ ops[1].note = "applied" /\ ops[1].key # last.key
  /\ db \in Live
  /\ disk[db][JsToSlice(last.key)] = Stored(JsToSlice(last.val))
  /\ disk[db][JsToSlice(ops[1].key)] = Stored(JsToSlice(ops[1].val))

\* C15: an EIO_Write or EIO_Read that finds the handle NULL calls nothing:
\* the store, the instances and the handle are as before, the request's
\* status and result are as its constructor left them, and the execute step
\* has returned, so that the request goes on to its complete step; the
\* process has not faulted.
C15_NullHandleSkipsEngine ==
  [][ /\ \A s \in Pool :
           ((EIO_Write_Test(s) \/ EIO_Read_Test(s)) /\ db = NULL) =>
             /\ ops'[s].status = BlankParams.status
             /\ ops'[s].result = BlankParams.result
             /\ ops'[s].note = "skipped"
             /\ Executed(ops'[s])
             /\ ops'[s].execs = 1
             /\ UNCHANGED << db, lock, disk, proc >>
      /\ \A s \in Pool :
           (s \in Slots /\ ops[s].note = "skipped") =>
             /\ Executed(ops[s])
             /\ (EIO_AfterWrite(s) \/ EIO_AfterRead(s)) =>
                  (last'.note = "skipped" /\ last'.execs = 1) ]_vars

\* A put dispatched on an open handle was executed after a close had made
\* the handle NULL, and has just been completed.
C15_Witness ==
  /\ last.kind = "put" /\ last.note = "skipped"
  /\ last.status = "OK" /\ last.result = << >>
  /\ db = NULL

\* The places of event e in the steps of a completion.
Places(e) == { i \in DOMAIN last.steps : last.steps[i] = e }

\* C16: the complete step of a put or a del deletes the WriteBatch the call
\* made, once, after the callback (when there is one) and after the one
\* execution of the request; no other step deletes it.  The complete step
\* of a write does not delete the WriteBatch it was given, nor does the
\* complete step of any other request delete one.
C16_TemporaryBatchDisposedOnce ==
  (last.kind # "none" /\ proc = "running") =>
    /\ last.execs = 1
    /\ last.kind \in {"put", "del"} =>
         /\ last.disposed
         /\ Cardinality(Places("delete writeBatch")) = 1
         /\ \A i \in Places("callback") :
              \A j \in Places("delete writeBatch") : i < j
         /\ last.hasCb => Cardinality(Places("callback")) = 1
    /\ last.kind \notin {"put", "del"} =>
         /\ ~last.disposed
         /\ Places("delete writeBatch") = {}

\* A put with a callback has been completed and its WriteBatch deleted
\* after the callback, and a write is outstanding with a WriteBatch of the
\* caller's.
C16_Witness ==
  /\ last.kind = "put" /\ last.hasCb /\ last.disposed
  /\ last.steps = << "callback", "delete writeBatch", "delete params" >>
  /\ \E s \in Slots : ops[s].kind = "write" /\ ~ops[s].dispose

\* What a call that throws e leaves: the exception, and the program as it
\* was (nothing handed to the pool, no reference taken, the handle and the
\* stores unchanged, no callback called).
Thrown(op, e) ==
  /\ ret' = [op |-> op, err |-> e]
  /\ last' = NoLast
  /\ UNCHANGED Program

\* C17: a call whose required arguments are missing or of the wrong type
\* throws on the caller thread and leaves the program as it was.  open and
\* get throw the TypeError; so do put, del and write on a handle that is
\* not NULL, while on a NULL handle they throw "not open", which they test
\* first.
C17_BadArgumentsThrow ==
  [][ /\ OpenArgs({FALSE}) => Thrown("open", "TypeError")
      /\ GetArgs({FALSE}, Keys) => Thrown("get", "TypeError")
      /\ PutArgs({FALSE}, Keys, Vals) =>
           Thrown("put", IF db = NULL THEN "NotOpen" ELSE "TypeError")
      /\ DelArgs({FALSE}, Keys) =>
           Thrown("del", IF db = NULL THEN "NotOpen" ELSE "TypeError")
      /\ WriteArgs({FALSE}, Batches) =>
           Thrown("write", IF db = NULL THEN "NotOpen" ELSE "TypeError") ]_vars

\* A put without its value has just thrown the TypeError on an open handle
\* while another request is outstanding.
C17_Witness ==
  /\ ret = [op |-> "put", err |-> "TypeError"]
  /\ db \in Live
  /\ Len(ops) = 1 /\ refs = 1 /\ evrefs = 1

\* C18: when the callback of a put, del or write is called with no
\* arguments, the request's WriteBatch was applied to an engine instance by
\* its execute step; in particular not after an execute step that found the
\* handle NULL and called nothing.  (Completions after a call through a
\* freed instance, which C2 is about, are left aside here.)
C18_SuccessMeansApplied ==
  ( /\ last.kind \in {"put", "del", "write"}
    /\ last.hasCb
    /\ last.args.argc = 0
    /\ last.note # "wild" ) => last.note = "applied"

\* C19: when the callback of a get is called with (null, payload), the
\* execute step looked the key up and the payload is the value it found; a
\* get whose execute step found the handle NULL and looked nothing up
\* delivers no payload, not even an empty one.  (Completions after a call
\* through a freed instance, which C2 is about, are left aside here.)
C19_PayloadMeansFound ==
  ( /\ last.kind = "get"
    /\ last.hasCb
    /\ last.args.argc = 2
    /\ last.note # "wild" ) =>
      /\ last.note = "found"
      /\ JsToSlice(Text(last.args.payload)) = last.result

\* Request s was handed to the pool after a close() that is still
\* outstanding.
IssuedAfterClose(s) == \E i \in 1 .. (s - 1) : ops[i].kind = "close"

\* C20: after close() on an open handle, with no open() after it, the
\* execute step of a put, del, write or get issued later changes nothing in
\* the stores and looks nothing up (a call made once the handle is NULL
\* throws and is not handed to the pool at all).
C20_NothingAppliedAfterClose ==
  [][ \A s \in Pool :
        (s \in Slots /\ IssuedAfterClose(s)) =>
          /\ EIO_Write_Call(s) => disk' = disk
          /\ EIO_Read_Call(s) => ops'[s].note \notin {"found", "missing"} ]_vars

====
